---- MODULE Spec2Model ----
(***************************************************************************)
(* EntropyGuard: procedure playback and drift reporting.                   *)
(*                                                                         *)
(* The repository holds several variants of the application component;    *)
(* two of them are modelled here:                                          *)
(*   - the supervisor-mode App kept in src/README.md (actions R_...),      *)
(*   - the AppState-based App of src/unnamed/part_000 (actions P_...).     *)
(* A React state variable is a variable of the same name; variants that    *)
(* use the same name for the same piece of state share the variable.  One  *)
(* action is one event handler, timer callback or promise continuation,    *)
(* including the effects React runs after the render it causes.            *)
(*                                                                         *)
(* Time unit of the wall clock: 2000 ms.  Unit of video positions and step *)
(* timestamps: 0.5 s.                                                      *)
(***************************************************************************)
EXTENDS Integers, Sequences, FiniteSets, TLC

\* ---------------------------------------------------------------- bounds
MaxCalls == 2
MaxLog == 2
MaxSteps == 2
MaxPos == 3
MaxJobs == 1
MaxSupLog == 1
MaxEntries == 3
MaxErrors == 7
MaxMonErrors == 1
MaxTimeouts == 2
MaxScans == 2
MaxAuditLog == 3

\* ------------------------------------------------------ program constants
\* README.md:650  if (now - lastProcessedTimeRef.current < 2000) return;
MinInterval == 1
\* README.md:418  playedSeconds >= currentStep.timestamp - 0.5
LeadWindow == 1
\* types.ts:337  timestamp: s.timestamp || ((i + 1) * 30)
FallbackSpacing == 60
\* part_001:56  timestamp?: number -- the value of an absent timestamp
NoTimestamp == -1
\* README.md:494  const scaleX = canvas.width / 1000
Scale == 1000
\* README.md:522  let [x, y, w, h] = coords -- an element that is not a number
\* (the response is JSON.parse'd and cast, types.ts:671); arithmetic on it
\* gives NaN
NotANumber == -1

VARIABLES
    \* scheduler (README.md 255-264, App.tsx 72)
    isAnalyzing,          \* useState(false); analyzingRef mirrors it (README.md:276)
    sinceProcessed,       \* Date.now() - lastProcessedTimeRef.current, saturated at MinInterval
    isFrozen,
    isMacroMode,
    isArmed,
    calls,                \* reasoning-service calls in flight, oldest first
    auditLogs,            \* newest first; an entry is its severity
    \* procedure timeline (README.md 203, 241-248)
    referenceData,        \* a reference image/document is loaded
    activeYoutubeUrl,     \* a video reference is loaded
    sopSteps,
    isSupervisorMode,
    currentVideoStepIndex,
    isVideoPlaying,
    showGoldenFrame,
    isImportingYt,        \* a processYoutubeVideo request is in flight (README.md:967)
    \* expert recording (README.md 232-236)
    isMasterMode,
    isRecording,
    recordedFrames,       \* recordedFramesRef.current.length > 0
    isProcessingVideo,
    masterSopSteps,       \* masterSopSteps.length
    sopJobs,              \* generateSOPFromFrames calls in flight: the isMasterMode each closed over
    \* workbench pre-flight scan (README.md 210)
    preFlightStatus,
    scans,                \* performPreFlightCheck calls in flight: whether the reference
                          \* each was given is the one still loaded
    \* session of the AppState-based App (part_000 56-79)
    appState,
    isCameraActive,
    logs,                 \* oldest first; an entry is its type
    analysisResult,       \* the status last displayed, or "null"
    startTime,            \* startTime !== null
    reference,            \* content and steps of the referenceData of part_000 (part_000:199-222)
    intervals,            \* live setInterval timers of the capture effect (part_000:272)
    intervalRef,          \* the timer held in intervalRef.current is alive (part_000:84)
    \* video procedure controller of App.tsx (42-46, 59); it has its own
    \* activeYoutubeUrl and sopSteps, declared above
    isProcessingYt,
    currentStepIndex,
    isStepWaiting,
    ytApi,                \* window.YT.Player is defined (App.tsx:79-86, 361)
    playerRef,            \* playerRef.current: "null", or a player "created" or "ready"
    playerTimeouts,       \* pending setTimeout callbacks of the player effect (App.tsx:362)
    pollIntervals,        \* live setInterval timers of the Smart Pause effect (App.tsx:377)
    pollCleanup,          \* the last run of that effect returned a cleanup (App.tsx:387)
    \* the drawOverlay that the memoised runComplianceCheck holds
    overlayMacro,         \* isMacroMode as that drawOverlay closed over it (README.md:485, 732)
    \* observation of the last event handled (not program state)
    ev

vars == << isAnalyzing, sinceProcessed, isFrozen, isMacroMode, isArmed, calls,
           auditLogs, referenceData, activeYoutubeUrl, sopSteps, isSupervisorMode,
           currentVideoStepIndex, isVideoPlaying, showGoldenFrame, isImportingYt,
           isMasterMode, isRecording, recordedFrames, isProcessingVideo,
           masterSopSteps, sopJobs, appState, isCameraActive, logs, analysisResult,
           startTime, reference, intervals, intervalRef, isProcessingYt, currentStepIndex,
           isStepWaiting, ytApi, playerRef, playerTimeouts, pollIntervals,
           pollCleanup, preFlightStatus, scans, overlayMacro, ev >>

schedVars == << isAnalyzing, sinceProcessed, isFrozen, isMacroMode, isArmed, calls >>
timelineVars == << referenceData, activeYoutubeUrl, sopSteps, isSupervisorMode,
                   currentVideoStepIndex, isVideoPlaying, showGoldenFrame, isImportingYt,
                   isMasterMode, isRecording, recordedFrames, isProcessingVideo,
                   masterSopSteps, sopJobs >>
monVars == << appState, isCameraActive, logs, analysisResult, startTime,
             reference, intervals, intervalRef >>
scanVars == << preFlightStatus, scans >>
appVars == << isProcessingYt, currentStepIndex, isStepWaiting, ytApi, playerRef,
             playerTimeouts, pollIntervals, pollCleanup >>
recordingVars == << isMasterMode, isRecording, recordedFrames, isProcessingVideo,
                    masterSopSteps, sopJobs >>

\* ----------------------------------------------------------------- types
\* DriftSeverity (part_001); the code only asks whether a severity is
\* CRITICAL (README.md:680-683, App.tsx:480), so LOW stands for MEDIUM too.
Severities == {"LOW", "CRITICAL"}

\* README.md:823  Math.max
Max(a, b) == IF a > b THEN a ELSE b

\* README.md:276  useEffect(() => { analyzingRef.current = isAnalyzing; }, [isAnalyzing])
analyzingRef == isAnalyzing

\* ------------------------------------------------------ reasoning service
\* What the remote service does with one request: it answers, or the request
\* fails (transport error, empty or unparsable response).
ServiceOutcomes ==
    {[failed |-> FALSE, status |-> "MATCH", drift_severity |-> "LOW"]}
    \cup {[failed |-> FALSE, status |-> "DRIFT", drift_severity |-> s] : s \in Severities}
    \cup {[failed |-> TRUE, status |-> "NONE", drift_severity |-> "NONE"]}

\* The `coordinates` of a response: absent, or an array.
NoCoords == [present |-> FALSE, v |-> << >>]
Coords(v) == [present |-> TRUE, v |-> v]

\* types.ts:78-83
MOCK_RESPONSE_DRIFT ==
    [status |-> "DRIFT", drift_severity |-> "CRITICAL",
     coordinates |-> Coords(<< 200, 300, 400, 300 >>)]

\* types.ts:670-672: the answer is JSON.parse'd and cast, not validated, so
\* its box is whatever the model wrote: four numbers, nothing, too few
\* elements, or an element that is not a number.
AnsweredCoordinates ==
    {Coords(<< 200, 300, 400, 300 >>), NoCoords, Coords(<< >>),
     Coords(<< NotANumber, 300, 400, 300 >>)}

\* What the remote service does with one analyzeCompliance request.
ComplianceOutcomes ==
    {[failed |-> o.failed, status |-> o.status, drift_severity |-> o.drift_severity,
      coordinates |-> c] : o \in {x \in ServiceOutcomes : ~x.failed},
                           c \in AnsweredCoordinates}
    \cup {[failed |-> TRUE, status |-> "NONE", drift_severity |-> "NONE",
           coordinates |-> NoCoords]}

\* types.ts:570-681: the ComplianceResponse the caller receives.  Every failure
\* inside the try block ends in the catch clause, which returns the mock drift.
analyzeCompliance(o) ==
    IF o.failed THEN MOCK_RESPONSE_DRIFT
    ELSE [status |-> o.status, drift_severity |-> o.drift_severity,
          coordinates |-> o.coordinates]

\* The observation left by an event no property below refers to.
Other == [op |-> "other"]

Init ==
    /\ isAnalyzing = FALSE
    /\ sinceProcessed = MinInterval      \* lastProcessedTimeRef starts at 0
    /\ isFrozen = FALSE
    /\ isMacroMode = FALSE
    /\ isArmed = FALSE
    /\ calls = << >>
    /\ auditLogs = << >>
    /\ referenceData = FALSE
    /\ activeYoutubeUrl = FALSE
    /\ sopSteps = << >>
    /\ isSupervisorMode = FALSE
    /\ currentVideoStepIndex = 0
    /\ isVideoPlaying = FALSE
    /\ showGoldenFrame = FALSE
    /\ isImportingYt = FALSE
    /\ isMasterMode = FALSE
    /\ isRecording = FALSE
    /\ recordedFrames = FALSE
    /\ isProcessingVideo = FALSE
    /\ masterSopSteps = 0
    /\ sopJobs = << >>
    /\ preFlightStatus = "IDLE"
    /\ scans = << >>
    /\ appState = "SPLASH"
    /\ isCameraActive = TRUE
    /\ logs = << >>
    /\ analysisResult = "null"
    /\ startTime = FALSE
    /\ reference = [content |-> "none", steps |-> "none"]
    /\ intervals = 0
    /\ intervalRef = FALSE
    /\ isProcessingYt = FALSE
    /\ currentStepIndex = 0
    /\ isStepWaiting = FALSE
    /\ ytApi = FALSE
    /\ playerRef = "null"
    /\ playerTimeouts = 0
    /\ pollIntervals = 0
    /\ pollCleanup = FALSE
    /\ overlayMacro = FALSE
    /\ ev = Other

\* Room for one more call in flight.
Room == Len(calls) < MaxCalls

RemoveAt(s, i) == SubSeq(s, 1, i - 1) \o SubSeq(s, i + 1, Len(s))

\* README.md:430-437: the effect that starts playback when supervisor mode is
\* on at step 0.  It runs after a render in which one of its dependencies
\* (isSupervisorMode, activeYoutubeUrl, sopSteps, currentVideoStepIndex,
\* showGoldenFrame) changed; playerRef.current is set while the player is
\* mounted, that is while a video is loaded and the master studio is closed
\* (README.md:1203, 1265).  `set` is the value the handler
\* itself left in isVideoPlaying.
StartAtStepZero(changed, set) ==
    IF /\ changed
       /\ isSupervisorMode' /\ activeYoutubeUrl' /\ Len(sopSteps') > 0
       /\ ~isMasterMode'
       /\ currentVideoStepIndex' = 0 /\ ~showGoldenFrame'
    THEN TRUE ELSE set

\* ======================================================================
\* README.md: drawOverlay
\* ======================================================================
\* A mirror step that forgets the width of the box.
mirrorXNoWidth(x, w, mirrored) == IF mirrored THEN Scale - x ELSE x
\* README.md:523  if (isMirrored) x = 1000 - (x + w)
mirrorX(x, w, mirrored) == IF mirrored THEN Scale - (x + w) ELSE x

\* README.md:485-521: drawOverlay reads coords.length when it is not in macro
\* mode and canvas and video exist; on an absent array that is a TypeError.
OverlayThrows(coords, macro, video) == ~macro /\ video /\ ~coords.present

\* README.md:480-524: what drawOverlay does with the box of a verdict on a
\* canvas of W x H pixels.  rect is the rectangle passed to roundRect, in
\* thousandths of a pixel (x * scaleX is x * W / 1000), or << >> when no
\* rectangle appears: in macro mode, without canvas or video, for an array
\* that has not four elements, and for a non-finite argument, which the
\* canvas ignores.  Reading coords.length of an absent array throws.
\* Floating-point rounding is left out.
drawOverlay(coords, W, H, mirrored, macro, video) ==
    IF OverlayThrows(coords, macro, video) THEN [threw |-> TRUE, rect |-> << >>]
    ELSE IF macro \/ ~video THEN [threw |-> FALSE, rect |-> << >>]
    ELSE IF Len(coords.v) # 4 THEN [threw |-> FALSE, rect |-> << >>]
    ELSE IF \E k \in 1..4 : coords.v[k] = NotANumber
         THEN [threw |-> FALSE, rect |-> << >>]
    ELSE LET x == mirrorX(coords.v[1], coords.v[3], mirrored)
             y == coords.v[2]
             w == coords.v[3]
             h == coords.v[4]
         IN  [threw |-> FALSE, rect |-> << x * W, y * H, w * W, h * H >>]

\* Boxes, canvas sizes and switch positions drawOverlay is applied to.
BoxValues == {0, 300, Scale}
Boxes == {Coords(v) : v \in [1..4 -> BoxValues]}
             \cup {NoCoords, Coords(<< >>), Coords(<< 300, 300 >>),
                   Coords(<< NotANumber, 300, 300, 300 >>)}
CanvasSizes == {<< 640, 480 >>, << 1280, 720 >>}

\* README.md:480 drawOverlay called with one box on one canvas.
R_drawOverlay(coords, size, mirrored, macro, video) ==
    /\ ev' = [op |-> "drawOverlay", coords |-> coords, W |-> size[1], H |-> size[2],
              mirrored |-> mirrored, macro |-> macro, video |-> video,
              out |-> drawOverlay(coords, size[1], size[2], mirrored, macro, video)]
    /\ UNCHANGED << monVars, appVars, scanVars >>
    /\ UNCHANGED << isAnalyzing, sinceProcessed, isFrozen, isMacroMode, isArmed, calls,
                    auditLogs, overlayMacro >>
    /\ UNCHANGED timelineVars

NextOverlay ==
    \E coords \in Boxes, size \in CanvasSizes, mirrored \in BOOLEAN,
       macro \in BOOLEAN, video \in BOOLEAN :
        R_drawOverlay(coords, size, mirrored, macro, video)

SpecOverlay == Init /\ [][NextOverlay]_vars

\* README.md:503  if (ymin <= 1) { ymin *= 1000; xmin *= 1000; ymax *= 1000; xmax *= 1000; }
rescale(boundingBox) ==
    IF boundingBox[1] <= 1 THEN [k \in 1..4 |-> boundingBox[k] * 1000] ELSE boundingBox

\* README.md:502-517: where drawOverlay puts the label of a translation with
\* the box [ymin, xmin, ymax, xmax] on a canvas of W x H pixels, outside
\* macro mode and with canvas and video: the corner (x * scaleX, y * scaleY)
\* of the pill, in thousandths of a pixel.
translationLabel(boundingBox, W, H, mirrored) ==
    LET b == rescale(boundingBox)
        w == b[4] - b[2]
        x == mirrorX(b[2], w, mirrored)
        y == b[1]
    IN  << x * W, y * H >>

\* Translation boxes on the 0-1000 scale that drawOverlay is applied to.
EdgeValues == {0, 1, 300, 700, Scale}
TranslationBoxes == {v \in [1..4 -> EdgeValues] : v[1] < v[3] /\ v[2] < v[4]}

\* README.md:500-518 drawOverlay called with one translation on one canvas.
R_drawTranslation(boundingBox, size, mirrored) ==
    /\ ev' = [op |-> "drawTranslation", boundingBox |-> boundingBox,
              W |-> size[1], H |-> size[2], mirrored |-> mirrored,
              out |-> translationLabel(boundingBox, size[1], size[2], mirrored)]
    /\ UNCHANGED << monVars, appVars, scanVars >>
    /\ UNCHANGED << isAnalyzing, sinceProcessed, isFrozen, isMacroMode, isArmed, calls,
                    auditLogs, overlayMacro >>
    /\ UNCHANGED timelineVars

NextLens ==
    \E boundingBox \in TranslationBoxes, size \in CanvasSizes, mirrored \in BOOLEAN :
        R_drawTranslation(boundingBox, size, mirrored)

SpecLens == Init /\ [][NextLens]_vars

\* README.md:647-732: runComplianceCheck is a useCallback; React makes a new
\* one, closing over the drawOverlay and the isMacroMode of that render, only
\* in a render in which one of its dependencies (732) changed.  `other` says
\* that a dependency the model does not hold changed.
RefreshCallback(other) ==
    overlayMacro' =
        IF \/ other
           \/ << referenceData, isFrozen, isSupervisorMode, currentVideoStepIndex,
                 activeYoutubeUrl, showGoldenFrame >>'
                 # << referenceData, isFrozen, isSupervisorMode, currentVideoStepIndex,
                      activeYoutubeUrl, showGoldenFrame >>
        THEN isMacroMode' ELSE overlayMacro

\* ======================================================================
\* README.md: rate-limited analysis scheduler
\* ======================================================================
Cams == {"none", "noframe", "frame"}  \* webcamRef.current null / getScreenshot() null / a frame

\* README.md:659-661: reading sopStepsRef.current[currentVideoStepIndex].text
\* raises a TypeError when the index is outside a non-empty list.
StepTextThrows ==
    /\ isSupervisorMode /\ activeYoutubeUrl /\ Len(sopSteps) > 0
    /\ currentVideoStepIndex >= Len(sopSteps)

\* README.md:648  first early return
GateBusy(cam) == cam = "none" \/ analyzingRef \/ isFrozen
\* A scheduler without the rate gate.
GateRateOff == FALSE
\* README.md:650  second early return
GateRate == sinceProcessed < MinInterval

\* README.md:647-665 and 726-731: runComplianceCheck up to its await.
R_runComplianceCheck(cam, silentMode) ==
    LET passed  == ~GateBusy(cam) /\ ~GateRate
        threw   == passed /\ cam = "frame" /\ StepTextThrows
        started == passed /\ cam = "frame" /\ ~StepTextThrows
    IN  /\ started => Room
        /\ sinceProcessed' = IF passed THEN 0 ELSE sinceProcessed
        /\ isAnalyzing' = IF passed THEN started ELSE isAnalyzing
        /\ calls' = IF started
                    THEN Append(calls, [kind |-> "compliance",
                                        idx |-> currentVideoStepIndex,
                                        sup |-> isSupervisorMode,
                                        gold |-> showGoldenFrame,
                                        macro |-> overlayMacro])
                    ELSE calls
        /\ UNCHANGED << monVars, appVars, scanVars >>
        /\ ev' = [op |-> "runComplianceCheck", gap |-> sinceProcessed,
                  busy |-> analyzingRef, frozen |-> isFrozen, macro |-> isMacroMode,
                  cam |-> cam, silentMode |-> silentMode, passed |-> passed,
                  started |-> started, threw |-> threw]
        /\ UNCHANGED << isFrozen, isMacroMode, isArmed, auditLogs >>
        /\ UNCHANGED timelineVars
        /\ RefreshCallback(FALSE)

\* README.md:851-858: the 4 s monitoring interval (and the immediate call the
\* effect makes when it is set up).
R_periodicTick ==
    /\ isArmed /\ ~isFrozen /\ ~isMacroMode
    /\ \E cam \in Cams : R_runComplianceCheck(cam, TRUE)

\* README.md:788-790 voice "system check"; 919-923 closed-hand gesture.  The
\* gesture's own 2 s debounce only removes gesture triggers.
R_manualTrigger == \E cam \in Cams : R_runComplianceCheck(cam, FALSE)

\* README.md:701-724: Supervisor Auto-Advance, with the values of
\* isSupervisorMode, showGoldenFrame and currentVideoStepIndex the callback
\* closed over when the call started (c) and the live sopStepsRef.
AutoAdvance(c, isMatch) ==
    IF c.sup /\ isMatch /\ c.gold
    THEN IF c.idx < Len(sopSteps) - 1
         THEN /\ currentVideoStepIndex' = c.idx + 1
              /\ showGoldenFrame' = FALSE
              /\ sopSteps' = [sopSteps EXCEPT ![c.idx + 1].completed = TRUE]
              /\ isSupervisorMode' = isSupervisorMode
         ELSE /\ isSupervisorMode' = FALSE
              /\ showGoldenFrame' = FALSE
              /\ UNCHANGED << currentVideoStepIndex, sopSteps >>
    ELSE UNCHANGED << currentVideoStepIndex, showGoldenFrame, sopSteps, isSupervisorMode >>

\* README.md:710 and 721: what the auto-advance leaves in isVideoPlaying
AutoAdvancePlaying(c, isMatch) ==
    IF c.sup /\ isMatch /\ c.gold THEN c.idx < Len(sopSteps) - 1 ELSE isVideoPlaying

\* README.md:665-731: the continuation of runComplianceCheck after the await.
\* drawOverlay (676) runs before the verdict is looked at; when it throws,
\* the catch clause (725-728) takes over and only isAnalyzing is cleared.
\* `video` says that the webcam's video element exists at that moment.
R_complianceDone(i, o, video) ==
    LET c   == calls[i]
        res == analyzeCompliance(o)
        threw   == OverlayThrows(res.coordinates, c.macro, video)
        isMatch == ~threw /\ res.status = "MATCH"
        isDrift == ~threw /\ res.status = "DRIFT"
    IN  /\ c.kind = "compliance"
        /\ isDrift => Len(auditLogs) < MaxLog
        /\ auditLogs' = IF isDrift
                        THEN << res.drift_severity >> \o auditLogs
                        ELSE auditLogs
        /\ AutoAdvance(c, isMatch)
        /\ isAnalyzing' = FALSE
        /\ calls' = RemoveAt(calls, i)
        /\ UNCHANGED << monVars, appVars, scanVars >>
        /\ ev' = [op |-> "complianceDone", failed |-> o.failed,
                  confirmed |-> (c.sup /\ isMatch /\ c.gold),
                  onStep |-> (c.idx = currentVideoStepIndex),
                  status |-> res.status, threw |-> threw]
        /\ UNCHANGED << sinceProcessed, isFrozen, isMacroMode, isArmed,
                        referenceData, activeYoutubeUrl, isImportingYt >>
        /\ UNCHANGED recordingVars
        /\ isVideoPlaying' = StartAtStepZero(c.sup /\ isMatch /\ c.gold,
                                             AutoAdvancePlaying(c, isMatch))
        /\ RefreshCallback(FALSE)

\* README.md:613-619: handleToolVerification up to its await.  The button
\* (1672) is rendered in macro mode and disabled while isAnalyzing; the voice
\* command (837-840) switches macro mode on and calls the handler directly.
R_handleToolVerification(src, cam) ==
    LET started == cam = "frame" IN
    /\ src = "button" => isMacroMode /\ ~isAnalyzing
    /\ started => Room
    /\ isMacroMode' = IF src = "voice" THEN TRUE ELSE isMacroMode
    /\ isAnalyzing' = IF cam = "none" THEN isAnalyzing ELSE TRUE
    /\ calls' = IF started THEN Append(calls, [kind |-> "tool"]) ELSE calls
    /\ UNCHANGED << monVars, appVars, scanVars >>
    /\ ev' = [op |-> "handleToolVerification", busy |-> analyzingRef,
              frame |-> (cam = "frame"), started |-> started]
    /\ UNCHANGED << sinceProcessed, isFrozen, isArmed, auditLogs >>
    /\ UNCHANGED timelineVars
    /\ RefreshCallback(FALSE)

\* README.md:620-644: the continuation of handleToolVerification.
\* verifyToolState (types.ts:416-449) never rejects; toolHistory is not modelled.
R_toolDone(i) ==
    /\ calls[i].kind = "tool"
    /\ isAnalyzing' = FALSE
    /\ calls' = RemoveAt(calls, i)
    /\ UNCHANGED << monVars, appVars, scanVars >>
    /\ ev' = Other
    /\ UNCHANGED << sinceProcessed, isFrozen, isMacroMode, isArmed, auditLogs >>
    /\ UNCHANGED timelineVars
    /\ RefreshCallback(FALSE)

R_callReturns ==
    \E i \in 1..Len(calls) :
        \/ \E o \in ComplianceOutcomes, video \in BOOLEAN : R_complianceDone(i, o, video)
        \/ R_toolDone(i)

\* README.md:791-793 voice "freeze"; 932-939 pointing gesture
R_toggleFreeze ==
    /\ isFrozen' = ~isFrozen
    /\ UNCHANGED << monVars, appVars, scanVars >>
    /\ ev' = Other
    /\ UNCHANGED << isAnalyzing, sinceProcessed, isMacroMode, isArmed, calls, auditLogs >>
    /\ UNCHANGED timelineVars
    /\ RefreshCallback(FALSE)

\* README.md:797-799 voice "macro"; 1461 button
R_toggleMacro ==
    /\ isMacroMode' = ~isMacroMode
    /\ UNCHANGED << monVars, appVars, scanVars >>
    /\ ev' = Other
    /\ UNCHANGED << isAnalyzing, sinceProcessed, isFrozen, isArmed, calls, auditLogs >>
    /\ UNCHANGED timelineVars
    /\ RefreshCallback(FALSE)

\* README.md:1666: the main action button is SCAN WORKBENCH
ScanButton == referenceData /\ preFlightStatus # "PASS" /\ ~isArmed

\* README.md:1666-1680: ARM / DISARM button, shown when the main action
\* button is neither SCAN WORKBENCH nor, in macro mode, VERIFY TOOL STATE
R_toggleArmed ==
    /\ ~ScanButton /\ ~isMacroMode
    /\ isArmed' = ~isArmed
    /\ UNCHANGED << monVars, appVars, scanVars >>
    /\ ev' = Other
    /\ UNCHANGED << isAnalyzing, sinceProcessed, isFrozen, isMacroMode, calls, auditLogs >>
    /\ UNCHANGED timelineVars
    /\ RefreshCallback(FALSE)

\* README.md:732: a render in which a dependency of runComplianceCheck that
\* the model does not hold changed (the mirror, privacy or translation
\* switch, the language, the protocol text, the API key, the hazard zones).
R_recreateCallback ==
    /\ overlayMacro # isMacroMode
    /\ UNCHANGED << monVars, appVars, scanVars >>
    /\ ev' = Other
    /\ UNCHANGED << isAnalyzing, sinceProcessed, isFrozen, isMacroMode, isArmed, calls,
                    auditLogs >>
    /\ UNCHANGED timelineVars
    /\ RefreshCallback(TRUE)

\* 2000 ms pass.
R_tick ==
    /\ sinceProcessed < MinInterval
    /\ sinceProcessed' = sinceProcessed + 1
    /\ UNCHANGED << monVars, appVars, scanVars >>
    /\ ev' = Other
    /\ UNCHANGED << isAnalyzing, isFrozen, isMacroMode, isArmed, calls, auditLogs >>
    /\ UNCHANGED timelineVars
    /\ RefreshCallback(FALSE)

NextSched ==
    \/ R_periodicTick
    \/ R_manualTrigger
    \/ \E src \in {"button", "voice"}, cam \in Cams : R_handleToolVerification(src, cam)
    \/ R_callReturns
    \/ R_toggleFreeze
    \/ R_toggleMacro
    \/ R_toggleArmed
    \/ R_tick
    \/ R_recreateCallback

SpecSched == Init /\ [][NextSched]_vars

\* ======================================================================
\* README.md: supervisor-mode procedure timeline
\* ======================================================================
schedAll == << isAnalyzing, sinceProcessed, isFrozen, isMacroMode, isArmed, calls, auditLogs >>

\* What the video model answers for one step: a timestamp, or none/zero.
RawTimestamps == {0, 3}
RawLists == UNION {[1..n -> RawTimestamps] : n \in 0..MaxSteps}

\* types.ts:332-340  timestamp: s.timestamp || ((i + 1) * 30); a failed
\* request (types.ts:343-348) yields the empty list.
processYoutubeVideo(raw) ==
    [i \in 1..Len(raw) |->
        [timestamp |-> IF raw[i] # 0 THEN raw[i] ELSE i * FallbackSpacing,
         completed |-> FALSE]]

\* types.ts:210-265 digitizeSOP and 683-737 generateSOPFromFrames: n steps
\* that carry no timestamp.
PlainSteps(n) == [i \in 1..n |-> [timestamp |-> NoTimestamp, completed |-> FALSE]]

\* README.md:1107
firstIncompleteIndex ==
    IF \E i \in 1..Len(sopSteps) : ~sopSteps[i].completed
    THEN (CHOOSE i \in 1..Len(sopSteps) :
             /\ ~sopSteps[i].completed
             /\ \A j \in 1..(i - 1) : sopSteps[j].completed) - 1
    ELSE -1

\* README.md:1263-1281: the embedded player is rendered
PlayerMounted == activeYoutubeUrl /\ ~isMasterMode
\* README.md:1373-1430: the "Load Standard" panel is rendered
LoadPanel == ~isMasterMode /\ Len(sopSteps) = 0 /\ ~referenceData

\* A progress handler that pauses without looking at the step list.
\* A step that is taken to have a target whatever its timestamp is.
hasTargetAlways(t) == TRUE
\* README.md:416  the truthiness test `currentStep.timestamp`
hasTarget(t) == t \notin {NoTimestamp, 0}

ReachesTargetAnyList(playedSeconds) ==
    isSupervisorMode /\ activeYoutubeUrl /\ ~showGoldenFrame
\* README.md:413-418: the conditions under which handleVideoProgress pauses:
\* it is past its early return, the current step exists and has a truthy
\* timestamp, and the position is within LeadWindow of it.
ReachesTarget(playedSeconds) ==
    /\ isSupervisorMode /\ activeYoutubeUrl /\ Len(sopSteps) > 0 /\ ~showGoldenFrame
    /\ currentVideoStepIndex < Len(sopSteps)
    /\ hasTarget(sopSteps[currentVideoStepIndex + 1].timestamp)
    /\ playedSeconds >= sopSteps[currentVideoStepIndex + 1].timestamp - LeadWindow

\* README.md:412-427
R_handleVideoProgress(playedSeconds) ==
    LET hasStep == currentVideoStepIndex < Len(sopSteps)
        t       == sopSteps[currentVideoStepIndex + 1].timestamp
        reached == hasStep /\ t # NoTimestamp /\ playedSeconds >= t - LeadWindow
        paused  == ReachesTarget(playedSeconds)
    IN  /\ PlayerMounted
        /\ showGoldenFrame' = (paused \/ showGoldenFrame)
        /\ UNCHANGED << monVars, appVars, scanVars >>
        /\ ev' = [op |-> "handleVideoProgress", reached |-> reached, paused |-> paused]
        /\ UNCHANGED schedAll
        /\ UNCHANGED << referenceData, activeYoutubeUrl, sopSteps, isSupervisorMode,
                        currentVideoStepIndex, isImportingYt >>
        /\ UNCHANGED recordingVars
        /\ isVideoPlaying' = StartAtStepZero(paused, IF paused THEN FALSE ELSE isVideoPlaying)
        /\ RefreshCallback(FALSE)

\* README.md:1274-1276: onPlay / onPause / onEnded of the player.  Its
\* controls are hidden while the alignment view is shown (1266); a playing
\* video can still end.
R_playerEvent(playing) ==
    /\ PlayerMounted
    /\ playing # isVideoPlaying
    /\ playing => ~showGoldenFrame
    /\ isVideoPlaying' = playing
    /\ UNCHANGED << monVars, appVars, scanVars >>
    /\ ev' = Other
    /\ UNCHANGED schedAll
    /\ UNCHANGED << referenceData, activeYoutubeUrl, sopSteps, isSupervisorMode,
                    currentVideoStepIndex, showGoldenFrame, isImportingYt >>
    /\ UNCHANGED recordingVars
    /\ RefreshCallback(FALSE)

\* README.md:1300: ENABLE SUPERVISOR / SUPERVISOR ACTIVE button
R_toggleSupervisor ==
    /\ ~isMasterMode /\ Len(sopSteps) > 0 /\ activeYoutubeUrl
    /\ isSupervisorMode' = ~isSupervisorMode
    /\ UNCHANGED << monVars, appVars, scanVars >>
    /\ ev' = Other
    /\ UNCHANGED schedAll
    /\ UNCHANGED << referenceData, activeYoutubeUrl, sopSteps, currentVideoStepIndex,
                    showGoldenFrame, isImportingYt >>
    /\ UNCHANGED recordingVars
    /\ isVideoPlaying' = StartAtStepZero(TRUE, isVideoPlaying)
    /\ RefreshCallback(FALSE)

\* README.md:800-820: voice "next step" / "confirm step"
R_voiceNextStep ==
    LET video == activeYoutubeUrl /\ isSupervisorMode
        nextIdx == currentVideoStepIndex + 1
        idx == firstIncompleteIndex
    IN  /\ currentVideoStepIndex' =
              IF video /\ nextIdx < Len(sopSteps) THEN nextIdx ELSE currentVideoStepIndex
        /\ sopSteps' =
              IF ~video /\ Len(sopSteps) > 0 /\ idx # -1
              THEN [sopSteps EXCEPT ![idx + 1].completed = TRUE]
              ELSE sopSteps
        /\ UNCHANGED << monVars, appVars, scanVars >>
        /\ ev' = [op |-> "voiceNextStep"]
        /\ UNCHANGED schedAll
        /\ UNCHANGED << referenceData, activeYoutubeUrl, isSupervisorMode,
                        showGoldenFrame, isImportingYt >>
        /\ UNCHANGED recordingVars
        /\ isVideoPlaying' = StartAtStepZero(currentVideoStepIndex' # currentVideoStepIndex
                                             \/ sopSteps' # sopSteps, isVideoPlaying)
        /\ RefreshCallback(FALSE)

\* A step back without the clamp at 0.
prevIdxUnclamped == currentVideoStepIndex - 1
\* README.md:823  Math.max(0, currentVideoStepIndex - 1)
prevIdx == Max(0, currentVideoStepIndex - 1)

\* README.md:821-826: voice "previous step" / "undo step"
R_voicePreviousStep ==
    /\ currentVideoStepIndex' =
          IF activeYoutubeUrl /\ isSupervisorMode
          THEN prevIdx ELSE currentVideoStepIndex
    /\ UNCHANGED << monVars, appVars, scanVars >>
    /\ ev' = [op |-> "voicePreviousStep", from |-> currentVideoStepIndex]
    /\ UNCHANGED schedAll
    /\ UNCHANGED << referenceData, activeYoutubeUrl, sopSteps, isSupervisorMode,
                    showGoldenFrame, isImportingYt >>
    /\ UNCHANGED recordingVars
    /\ isVideoPlaying' = StartAtStepZero(currentVideoStepIndex' # currentVideoStepIndex,
                                         isVideoPlaying)
    /\ RefreshCallback(FALSE)

\* README.md:1312: the step the list highlights as active
isActive(index) ==
    /\ ~sopSteps[index + 1].completed
    /\ IF isSupervisorMode THEN index = currentVideoStepIndex
                           ELSE index = firstIncompleteIndex

\* README.md:1021-1023
toggleStep(index) ==
    [sopSteps EXCEPT ![index + 1].completed = ~sopSteps[index + 1].completed]

\* README.md:1314-1322: click on a step of the list.  The handler makes no
\* playerRef.seekTo call (the only one is at 421, in handleVideoProgress):
\* `seeks` is the set of positions it asks the player to seek to.
R_selectStep(index) ==
    /\ ~isMasterMode /\ index < Len(sopSteps)
    /\ IF isSupervisorMode
       THEN /\ currentVideoStepIndex' = index
            /\ showGoldenFrame' = FALSE
            /\ sopSteps' = sopSteps
       ELSE /\ sopSteps' = toggleStep(index)
            /\ UNCHANGED << currentVideoStepIndex, showGoldenFrame >>
    /\ UNCHANGED << monVars, appVars, scanVars >>
    /\ ev' = [op |-> "selectStep", index |-> index, seeks |-> {}]
    /\ UNCHANGED schedAll
    /\ UNCHANGED << referenceData, activeYoutubeUrl, isSupervisorMode, isImportingYt >>
    /\ UNCHANGED recordingVars
    /\ isVideoPlaying' = StartAtStepZero(currentVideoStepIndex' # currentVideoStepIndex
                                         \/ showGoldenFrame' # showGoldenFrame
                                         \/ sopSteps' # sopSteps, isVideoPlaying)
    /\ RefreshCallback(FALSE)

\* README.md:1312, 1354-1366: GOLDEN FRAME button of the active step
R_goldenFrameButton ==
    LET active == IF isSupervisorMode THEN currentVideoStepIndex ELSE firstIncompleteIndex
    IN  /\ ~isMasterMode /\ activeYoutubeUrl
        /\ active >= 0 /\ active < Len(sopSteps)
        /\ ~sopSteps[active + 1].completed
        /\ sopSteps[active + 1].timestamp # NoTimestamp
        /\ ~showGoldenFrame
        /\ showGoldenFrame' = TRUE
        /\ UNCHANGED << monVars, appVars, scanVars >>
        /\ ev' = Other
        /\ UNCHANGED schedAll
        /\ UNCHANGED << referenceData, activeYoutubeUrl, sopSteps, isSupervisorMode,
                        currentVideoStepIndex, isVideoPlaying, isImportingYt >>
        /\ UNCHANGED recordingVars
        /\ RefreshCallback(FALSE)

\* README.md:1598-1604: EXIT ALIGNMENT button
R_exitAlignment ==
    /\ activeYoutubeUrl /\ showGoldenFrame
    /\ showGoldenFrame' = FALSE
    /\ UNCHANGED << monVars, appVars, scanVars >>
    /\ ev' = Other
    /\ UNCHANGED schedAll
    /\ UNCHANGED << referenceData, activeYoutubeUrl, sopSteps, isSupervisorMode,
                    currentVideoStepIndex, isImportingYt >>
    /\ UNCHANGED recordingVars
    /\ isVideoPlaying' = StartAtStepZero(TRUE, isVideoPlaying)
    /\ RefreshCallback(FALSE)

\* ----------------------------------------------------- reference loading
\* The scans in flight once the reference they were given is replaced or
\* removed: each goes on with the reference it closed over (README.md:595).
Superseded == [i \in 1..Len(scans) |-> FALSE]

\* README.md:965-968: handleYoutubeSubmit up to its await; the button (1420)
\* is in the load panel and disabled during an import.
R_handleYoutubeSubmit ==
    /\ LoadPanel /\ ~isImportingYt
    /\ isImportingYt' = TRUE
    /\ UNCHANGED << monVars, appVars, scanVars >>
    /\ ev' = Other
    /\ UNCHANGED schedAll
    /\ UNCHANGED << referenceData, activeYoutubeUrl, sopSteps, isSupervisorMode,
                    currentVideoStepIndex, isVideoPlaying, showGoldenFrame >>
    /\ UNCHANGED recordingVars
    /\ RefreshCallback(FALSE)

\* README.md:969-979: its continuation.  processYoutubeVideo rejects an
\* invalid URL (types.ts:268-270) and answers anything else.
R_youtubeImported(rejected, raw) ==
    /\ isImportingYt
    /\ isImportingYt' = FALSE
    /\ IF rejected
       THEN UNCHANGED << referenceData, activeYoutubeUrl, sopSteps, scans >>
       ELSE /\ referenceData' = FALSE
            /\ activeYoutubeUrl' = TRUE
            /\ sopSteps' = processYoutubeVideo(raw)
            /\ scans' = Superseded
    /\ preFlightStatus' = preFlightStatus
    /\ UNCHANGED << monVars, appVars >>
    /\ ev' = Other
    /\ UNCHANGED schedAll
    /\ UNCHANGED << isSupervisorMode, currentVideoStepIndex, showGoldenFrame >>
    /\ UNCHANGED recordingVars
    /\ isVideoPlaying' = StartAtStepZero(~rejected, isVideoPlaying)
    /\ RefreshCallback(FALSE)

\* README.md:952-960 and 986-992: what a loaded file or a scanned manual does
LoadReference ==
    /\ referenceData' = TRUE
    /\ preFlightStatus' = "IDLE"
    /\ scans' = Superseded
    /\ sopSteps' = << >>
    /\ isArmed' = FALSE
    /\ activeYoutubeUrl' = FALSE
    /\ UNCHANGED << isAnalyzing, sinceProcessed, isFrozen, isMacroMode, calls, auditLogs >>
    /\ UNCHANGED << isSupervisorMode, currentVideoStepIndex, showGoldenFrame, isImportingYt >>
    /\ UNCHANGED recordingVars
    /\ isVideoPlaying' = StartAtStepZero(TRUE, isVideoPlaying)

\* README.md:948-963
R_handleFileUpload ==
    /\ LoadPanel
    /\ LoadReference
    /\ UNCHANGED << monVars, appVars >>
    /\ ev' = Other
    /\ RefreshCallback(FALSE)

\* README.md:982-996; without a camera frame the handler does nothing
R_handleScanManual ==
    /\ LoadPanel
    /\ LoadReference
    /\ UNCHANGED << monVars, appVars >>
    /\ ev' = Other
    /\ RefreshCallback(FALSE)

\* README.md:998-1008, the successful case; a rejected request changes nothing
R_handleGenerateSchematic ==
    /\ LoadPanel
    /\ referenceData' = TRUE
    /\ preFlightStatus' = "IDLE"
    /\ scans' = Superseded
    /\ isArmed' = FALSE
    /\ activeYoutubeUrl' = FALSE
    /\ UNCHANGED << monVars, appVars >>
    /\ ev' = Other
    /\ UNCHANGED << isAnalyzing, sinceProcessed, isFrozen, isMacroMode, calls, auditLogs >>
    /\ UNCHANGED << sopSteps, isSupervisorMode, currentVideoStepIndex, showGoldenFrame,
                    isImportingYt >>
    /\ UNCHANGED recordingVars
    /\ isVideoPlaying' = StartAtStepZero(activeYoutubeUrl, isVideoPlaying)
    /\ RefreshCallback(FALSE)

\* README.md:1384: the X button on the loaded reference
R_clearReference ==
    /\ ~isMasterMode /\ Len(sopSteps) = 0 /\ referenceData
    /\ referenceData' = FALSE
    /\ preFlightStatus' = preFlightStatus
    /\ scans' = Superseded
    /\ UNCHANGED << monVars, appVars >>
    /\ ev' = Other
    /\ UNCHANGED schedAll
    /\ UNCHANGED << activeYoutubeUrl, sopSteps, isSupervisorMode, currentVideoStepIndex,
                    isVideoPlaying, showGoldenFrame, isImportingYt >>
    /\ UNCHANGED recordingVars
    /\ RefreshCallback(FALSE)

\* README.md:589-593: handlePreFlightScan up to its await; the button is
\* disabled during a scan (1667).  Without a camera the handler returns at
\* once; without a frame it returns after setting ANALYZING.
R_handlePreFlightScan(cam) ==
    /\ ScanButton /\ preFlightStatus # "ANALYZING"
    /\ cam = "frame" => Len(scans) < MaxScans
    /\ preFlightStatus' = IF cam = "none" THEN preFlightStatus ELSE "ANALYZING"
    /\ scans' = IF cam = "frame" THEN Append(scans, TRUE) ELSE scans
    /\ ev' = [op |-> "handlePreFlightScan", cam |-> cam]
    /\ UNCHANGED << monVars, appVars >>
    /\ UNCHANGED schedAll
    /\ UNCHANGED timelineVars
    /\ RefreshCallback(FALSE)

\* README.md:594-610: its continuation.  A rejected request ends in the catch
\* clause, which sets FAIL.
R_preFlightDone(i, status) ==
    /\ i \in 1..Len(scans)
    /\ preFlightStatus' = status
    /\ scans' = RemoveAt(scans, i)
    /\ ev' = [op |-> "preFlightDone", status |-> status, current |-> scans[i]]
    /\ UNCHANGED << monVars, appVars >>
    /\ UNCHANGED schedAll
    /\ UNCHANGED timelineVars
    /\ RefreshCallback(FALSE)

\* README.md:1010-1019 with the button's condition (1194); digitizeSOP
\* (types.ts:210-265) never rejects.
R_handleDigitizeSOP(n) ==
    /\ ~isMasterMode /\ referenceData /\ Len(sopSteps) = 0
    /\ sopSteps' = PlainSteps(n)
    /\ UNCHANGED << monVars, appVars, scanVars >>
    /\ ev' = Other
    /\ UNCHANGED schedAll
    /\ UNCHANGED << referenceData, activeYoutubeUrl, isSupervisorMode,
                    currentVideoStepIndex, showGoldenFrame, isImportingYt >>
    /\ UNCHANGED recordingVars
    /\ isVideoPlaying' = StartAtStepZero(TRUE, isVideoPlaying)
    /\ RefreshCallback(FALSE)

\* ------------------------------------------------------ expert recording
\* README.md:384-409: the recording effect, run after a render in which
\* isRecording or isMasterMode changed.
RecordingEffect ==
    IF isRecording'
    THEN /\ recordedFrames' = FALSE
         /\ UNCHANGED << isProcessingVideo, sopJobs >>
    ELSE IF recordedFrames
    THEN /\ Len(sopJobs) < MaxJobs
         /\ isProcessingVideo' = TRUE
         /\ sopJobs' = Append(sopJobs, isMasterMode')
         /\ UNCHANGED recordedFrames
    ELSE UNCHANGED << recordedFrames, isProcessingVideo, sopJobs >>

\* README.md:1186
R_toggleMasterMode ==
    /\ isMasterMode' = ~isMasterMode
    /\ UNCHANGED << isRecording, masterSopSteps >>
    /\ RecordingEffect
    /\ UNCHANGED << monVars, appVars, scanVars >>
    /\ ev' = Other
    /\ UNCHANGED schedAll
    /\ UNCHANGED << referenceData, activeYoutubeUrl, sopSteps, isSupervisorMode,
                    currentVideoStepIndex, isVideoPlaying, showGoldenFrame, isImportingYt >>
    /\ RefreshCallback(FALSE)

\* README.md:1247-1258: START / STOP RECORDING
R_toggleRecording ==
    /\ isMasterMode /\ ~isProcessingVideo /\ masterSopSteps = 0
    /\ isRecording' = ~isRecording
    /\ UNCHANGED << isMasterMode, masterSopSteps >>
    /\ RecordingEffect
    /\ UNCHANGED << monVars, appVars, scanVars >>
    /\ ev' = Other
    /\ UNCHANGED schedAll
    /\ UNCHANGED << referenceData, activeYoutubeUrl, sopSteps, isSupervisorMode,
                    currentVideoStepIndex, isVideoPlaying, showGoldenFrame, isImportingYt >>
    /\ RefreshCallback(FALSE)

\* README.md:389-394: the 2 s capture timer stores a frame
R_recordFrame ==
    /\ isRecording /\ ~recordedFrames
    /\ recordedFrames' = TRUE
    /\ UNCHANGED << monVars, appVars, scanVars >>
    /\ ev' = Other
    /\ UNCHANGED schedAll
    /\ UNCHANGED << referenceData, activeYoutubeUrl, sopSteps, isSupervisorMode,
                    currentVideoStepIndex, isVideoPlaying, showGoldenFrame, isImportingYt >>
    /\ UNCHANGED << isMasterMode, isRecording, isProcessingVideo, masterSopSteps, sopJobs >>
    /\ RefreshCallback(FALSE)

\* README.md:399-406: generateSOPFromFrames (types.ts:683-737) resolves with
\* n steps; it never rejects.  Setting isMasterMode re-runs the effect.
R_sopGenerated(i, n) ==
    LET closedOverMaster == sopJobs[i]
        rest == RemoveAt(sopJobs, i)
    IN  /\ masterSopSteps' = n
        /\ sopSteps' = PlainSteps(n)
        /\ isMasterMode' = IF closedOverMaster THEN isMasterMode ELSE TRUE
        /\ UNCHANGED << isRecording >>
        /\ IF isMasterMode' # isMasterMode /\ ~isRecording /\ recordedFrames
           THEN /\ sopJobs' = Append(rest, TRUE)
                /\ isProcessingVideo' = TRUE
                /\ UNCHANGED recordedFrames
           ELSE /\ sopJobs' = rest
                /\ isProcessingVideo' = FALSE
                /\ recordedFrames' = IF isMasterMode' # isMasterMode /\ isRecording
                                     THEN FALSE ELSE recordedFrames
        /\ UNCHANGED << monVars, appVars, scanVars >>
        /\ ev' = Other
        /\ UNCHANGED schedAll
        /\ UNCHANGED << referenceData, activeYoutubeUrl, isSupervisorMode,
                        currentVideoStepIndex, showGoldenFrame, isImportingYt >>
        /\ isVideoPlaying' = StartAtStepZero(TRUE, isVideoPlaying)
        /\ RefreshCallback(FALSE)

NextTimeline ==
    \/ \E playedSeconds \in 0..MaxPos : R_handleVideoProgress(playedSeconds)
    \/ \E playing \in BOOLEAN : R_playerEvent(playing)
    \/ R_toggleSupervisor
    \/ R_voiceNextStep
    \/ R_voicePreviousStep
    \/ \E index \in 0..(MaxSteps - 1) : R_selectStep(index)
    \/ R_goldenFrameButton
    \/ R_exitAlignment
    \/ R_handleYoutubeSubmit
    \/ \E raw \in RawLists : R_youtubeImported(FALSE, raw)
    \/ R_youtubeImported(TRUE, << >>)

\* The references that are not a video, and the step list read from one.
NextReference ==
    \/ R_handleFileUpload
    \/ R_handleScanManual
    \/ R_handleGenerateSchematic
    \/ R_clearReference
    \/ \E n \in 0..MaxSteps : R_handleDigitizeSOP(n)

\* The master studio.
NextRecording ==
    \/ R_toggleMasterMode
    \/ R_toggleRecording
    \/ R_recordFrame
    \/ \E i \in 1..Len(sopJobs), n \in 0..MaxSteps : R_sopGenerated(i, n)

\* The outcomes in which the overlay has a box of four numbers to draw.
BoxedOutcomes ==
    {o \in ComplianceOutcomes :
        o.failed \/ o.coordinates = Coords(<< 200, 300, 400, 300 >>)}

\* The supervised procedure: the timeline and the references, with the
\* analyses a voice command starts, answered with a well-formed box.  The
\* audit log is cut off at MaxSupLog entries.
NextSup ==
    \/ NextTimeline
    \/ NextReference
    \/ R_runComplianceCheck("frame", FALSE)
    \/ \E i \in 1..Len(calls), o \in BoxedOutcomes :
           R_complianceDone(i, o, TRUE) /\ Len(auditLogs') <= MaxSupLog
    \/ R_tick

SpecSup == Init /\ [][NextSup]_vars

\* Loading and clearing references, scanning the workbench and arming.
NextPreFlight ==
    \/ NextReference
    \/ R_handleYoutubeSubmit
    \/ \E raw \in RawLists : R_youtubeImported(FALSE, raw)
    \/ R_youtubeImported(TRUE, << >>)
    \/ \E cam \in Cams : R_handlePreFlightScan(cam)
    \/ \E i \in 1..Len(scans), status \in {"PASS", "FAIL"} : R_preFlightDone(i, status)
    \/ R_toggleArmed
    \/ R_toggleMacro

SpecPreFlight == Init /\ [][NextPreFlight]_vars

\* The supervised procedure while the master studio replaces the step list:
\* the timeline and the recording, with the analyses answered MATCH or not
\* answered at all.
NextRec ==
    \/ NextTimeline
    \/ NextRecording
    \/ R_runComplianceCheck("frame", FALSE)
    \/ \E i \in 1..Len(calls), o \in {x \in BoxedOutcomes : x.failed \/ x.status = "MATCH"} :
           R_complianceDone(i, o, TRUE) /\ Len(auditLogs') <= MaxSupLog
    \/ R_tick

SpecRec == Init /\ [][NextRec]_vars

\* ======================================================================
\* part_000: the AppState-based App
\* ======================================================================
readmeVars == << isAnalyzing, sinceProcessed, isFrozen, isMacroMode, isArmed, auditLogs,
                 overlayMacro,
                 activeYoutubeUrl, sopSteps, isSupervisorMode, currentVideoStepIndex,
                 isVideoPlaying, showGoldenFrame, isImportingYt, isMasterMode,
                 isRecording, recordedFrames, isProcessingVideo, masterSopSteps, sopJobs,
                 preFlightStatus, scans >>

\* services/geminiService.ts:30-70: the result the caller receives.  A failed
\* request ends in the catch clause, which draws MATCH or DRIFT at random.
performEntropyCheck(o, isDrift) ==
    IF o.failed
    THEN [status |-> IF isDrift THEN "DRIFT" ELSE "MATCH",
          severity |-> IF isDrift THEN "MEDIUM" ELSE "LOW"]
    ELSE [status |-> o.status, severity |-> o.drift_severity]

\* part_000:96-103
addLog(type) == Append(logs, type)

\* part_003:86  logs.filter(l => l.type === 'ERROR').length
errors(l) == Len(SelectSeq(l, LAMBDA e : e = "ERROR"))
\* A score without the floor at 0.
complianceScoreUnclamped(l) == 100 - (errors(l) * 15)
\* part_003:87  Math.max(0, 100 - (errors * 15)), shown by the ComplianceModal
complianceScore(l) == Max(0, 100 - (errors(l) * 15))

\* Room for one more entry that is not an ERROR.
LogRoom == Len(logs) - errors(logs) < MaxEntries

\* The calls of one kind that are in flight.
Outstanding(kind) == Cardinality({i \in 1..Len(calls) : calls[i].kind = kind})

\* An effect that never stamps the session.
SessionNeverStarts == FALSE
\* part_000:117-130: the appState effect on entering MONITORING
SessionStarts == appState' = "MONITORING" /\ appState # "MONITORING" /\ ~startTime

\* A clearInterval that leaves the timer running.
clearIntervalNoop(n) == n
\* clearInterval on a live timer (part_000:274, App.tsx:387)
clearInterval(n) == n - 1

\* An interval that is not cleared when the task is finished.
MonitoringIntervalKept == appState \in {"MONITORING", "REPORT"}
\* part_000:271  the test of the interval effect
MonitoringInterval == appState = "MONITORING"

\* part_000:270-275: the interval effect.  It runs again after a render in
\* which appState or captureFrame changed (captureFrame is recreated when
\* referenceData or isCameraActive change, part_000:268): first the cleanup
\* of its previous run, which clears the timer that intervalRef.current holds
\* at that moment, then its body.
IntervalEffect(rerun) ==
    LET cleaned == IF rerun /\ intervalRef THEN clearInterval(intervals) ELSE intervals IN
    /\ intervals' = IF rerun /\ MonitoringInterval' THEN cleaned + 1 ELSE cleaned
    /\ intervalRef' = IF rerun THEN MonitoringInterval' ELSE intervalRef

\* The embed URLs that can be submitted (components/ReferenceViewer.tsx:36).
Urls == {"u1", "u2"}
\* part_000:199-204 and 218-223: a reference as it is loaded, with no steps
Loaded(content) == [content |-> content, steps |-> "none"]
\* setReferenceData(null)
NoReference == [content |-> "none", steps |-> "none"]

\* A test that attaches the steps to whatever reference is loaded.
sameContentAlways(embedUrl) == referenceData
\* part_000:229  prev && prev.content === embedUrl
sameContent(embedUrl) == referenceData /\ reference.content = embedUrl

\* part_000:283  LandingScreen onComplete
P_onComplete ==
    /\ appState = "SPLASH"
    /\ appState' = "DASHBOARD"
    /\ ev' = Other
    /\ UNCHANGED << isCameraActive, logs, analysisResult, startTime, referenceData, calls >>
    /\ UNCHANGED reference
    /\ IntervalEffect(TRUE)
    /\ UNCHANGED << readmeVars, appVars >>

\* part_000:194-208; the upload field is rendered while no reference is
\* loaded (components/ReferenceViewer.tsx:82-97)
P_handleFileUpload ==
    /\ appState \in {"DASHBOARD", "MONITORING"}
    /\ ~referenceData
    /\ LogRoom
    /\ referenceData' = TRUE
    /\ logs' = addLog("SUCCESS")
    /\ ev' = Other
    /\ UNCHANGED << appState, isCameraActive, analysisResult, startTime, calls >>
    /\ reference' = Loaded("file")
    /\ IntervalEffect(TRUE)
    /\ UNCHANGED << readmeVars, appVars >>

\* part_000:210-224: handleYoutubeSubmit up to its await.  The URL field is
\* rendered while no reference is loaded and submits on Enter even during an
\* import (components/ReferenceViewer.tsx:82, 132).
P_handleYoutubeSubmit(embedUrl) ==
    /\ appState \in {"DASHBOARD", "MONITORING"}
    /\ ~referenceData
    /\ Room /\ LogRoom
    /\ logs' = addLog("AI")
    /\ referenceData' = TRUE
    /\ calls' = Append(calls, [kind |-> "youtube", url |-> embedUrl])
    /\ ev' = Other
    /\ UNCHANGED << appState, isCameraActive, analysisResult, startTime >>
    /\ reference' = Loaded(embedUrl)
    /\ IntervalEffect(TRUE)
    /\ UNCHANGED << readmeVars, appVars >>

\* part_000:225-239: its continuation.  generateStepsFromUrl
\* (services/geminiService.ts:6-28) never rejects: a failed ingestion resolves
\* with one placeholder step, so the catch clause (234-236) is never entered.
P_youtubeDone(i) ==
    /\ calls[i].kind = "youtube"
    /\ LogRoom
    /\ logs' = addLog("SUCCESS")
    /\ calls' = RemoveAt(calls, i)
    /\ ev' = [op |-> "youtubeDone", url |-> calls[i].url]
    /\ UNCHANGED << appState, isCameraActive, analysisResult, startTime, referenceData >>
    /\ reference' = IF sameContent(calls[i].url) THEN [reference EXCEPT !.steps = calls[i].url]
                  ELSE reference
    /\ IntervalEffect(sameContent(calls[i].url))
    /\ UNCHANGED << readmeVars, appVars >>

\* part_000:363-366  ReferenceViewer onClear
P_onClear ==
    /\ appState \in {"DASHBOARD", "MONITORING"}
    /\ referenceData
    /\ referenceData' = FALSE
    /\ ev' = Other
    /\ UNCHANGED << appState, isCameraActive, logs, analysisResult, startTime, calls >>
    /\ reference' = NoReference
    /\ IntervalEffect(TRUE)
    /\ UNCHANGED << readmeVars, appVars >>

\* A start that does not look at the reference.
P_startCheckSequenceAlways ==
    /\ appState = "DASHBOARD"
    /\ appState' = "CALIBRATION"
    /\ ev' = [op |-> "startCheckSequence"]
    /\ UNCHANGED << isCameraActive, logs, analysisResult, startTime, referenceData, calls >>
    /\ UNCHANGED reference
    /\ IntervalEffect(TRUE)
    /\ UNCHANGED << readmeVars, appVars >>

\* part_000:242-248, called by the action button outside MONITORING (520-526)
P_startCheckSequence ==
    /\ appState = "DASHBOARD"
    /\ appState' = IF referenceData THEN "CALIBRATION" ELSE appState
    /\ ev' = [op |-> "startCheckSequence"]
    /\ UNCHANGED << isCameraActive, logs, analysisResult, startTime, referenceData, calls >>
    /\ UNCHANGED reference
    /\ IntervalEffect(appState' # appState)
    /\ UNCHANGED << readmeVars, appVars >>

\* part_000:354-356  CalibrationWizard onComplete, with the effect 117-130
P_calibrationComplete ==
    /\ appState = "CALIBRATION"
    /\ appState' = "MONITORING"
    /\ SessionStarts => LogRoom
    /\ startTime' = (SessionStarts \/ startTime)
    /\ logs' = IF SessionStarts THEN addLog("SUCCESS") ELSE logs
    /\ ev' = Other
    /\ UNCHANGED << isCameraActive, analysisResult, referenceData, calls >>
    /\ UNCHANGED reference
    /\ IntervalEffect(TRUE)
    /\ UNCHANGED << readmeVars, appVars >>

\* part_000:384-388
P_toggleCamera ==
    /\ appState \in {"DASHBOARD", "MONITORING"}
    /\ LogRoom
    /\ isCameraActive' = ~isCameraActive
    /\ logs' = addLog(IF isCameraActive' THEN "SUCCESS" ELSE "WARNING")
    /\ ev' = Other
    /\ UNCHANGED << appState, analysisResult, startTime, referenceData, calls >>
    /\ UNCHANGED reference
    /\ IntervalEffect(TRUE)
    /\ UNCHANGED << readmeVars, appVars >>

\* part_000:250-257 and 270-275: one firing of the 2.5 s interval, up to the
\* await in captureFrame.  isPaused is never set.
P_captureFrame(cam) ==
    LET started == isCameraActive /\ cam = "frame" /\ referenceData IN
    /\ intervals > 0
    /\ started => Room
    /\ calls' = IF started THEN Append(calls, [kind |-> "entropy", overtaken |-> FALSE])
                ELSE calls
    /\ ev' = [op |-> "captureFrame", outstanding |-> Outstanding("entropy"),
              started |-> started]
    /\ UNCHANGED << appState, isCameraActive, logs, analysisResult, startTime, referenceData >>
    /\ UNCHANGED reference
    /\ IntervalEffect(FALSE)
    /\ UNCHANGED << readmeVars, appVars >>

\* The calls in flight when call i answers: the checks started before it
\* are marked as overtaken by a check started later (an observation, not
\* program state: the calls carry no identity, part_000:258-259).
Overtake(i) ==
    [j \in 1..Len(calls) |->
        IF j < i /\ calls[j].kind = "entropy"
        THEN [calls[j] EXCEPT !.overtaken = TRUE] ELSE calls[j]]

\* part_000:258-267: the continuation of captureFrame
P_captureDone(i, o, isDrift) ==
    LET result == performEntropyCheck(o, isDrift) IN
    /\ calls[i].kind = "entropy"
    /\ result.status = "DRIFT" => errors(logs) < MaxErrors
    /\ analysisResult' = result.status
    /\ logs' = IF result.status = "DRIFT" THEN addLog("ERROR") ELSE logs
    /\ calls' = RemoveAt(Overtake(i), i)
    /\ ev' = [op |-> "captureDone", failed |-> o.failed,
              status |-> result.status, severity |-> result.severity,
              overtaken |-> calls[i].overtaken]
    /\ UNCHANGED << appState, isCameraActive, startTime, referenceData >>
    /\ UNCHANGED reference
    /\ IntervalEffect(FALSE)
    /\ UNCHANGED << readmeVars, appVars >>

\* A FINISH TASK that is offered only while the camera is capturing.
FinishTaskWhileCapturing == appState = "MONITORING" /\ isCameraActive
\* part_000:520: the action button finishes the task while appState is
\* MONITORING, whatever isCameraActive and isPaused are.
FinishTask == appState = "MONITORING"

\* part_000:520-523 FINISH TASK; 151-153 voice "stop"
P_finishTask ==
    /\ FinishTask
    /\ appState' = "REPORT"
    /\ ev' = Other
    /\ UNCHANGED << isCameraActive, logs, analysisResult, startTime, referenceData, calls >>
    /\ UNCHANGED reference
    /\ IntervalEffect(TRUE)
    /\ UNCHANGED << readmeVars, appVars >>

\* A reset that leaves the session log as it is.
P_onResetKeepsLog ==
    /\ appState = "REPORT"
    /\ appState' = "DASHBOARD"
    /\ referenceData' = FALSE
    /\ startTime' = FALSE
    /\ ev' = [op |-> "onReset"]
    /\ UNCHANGED << logs, isCameraActive, analysisResult, calls >>
    /\ reference' = NoReference
    /\ IntervalEffect(TRUE)
    /\ UNCHANGED << readmeVars, appVars >>

\* part_000:306-317  ComplianceModal onReset
P_onReset ==
    /\ appState = "REPORT"
    /\ appState' = "DASHBOARD"
    /\ logs' = << >>
    /\ referenceData' = FALSE
    /\ startTime' = FALSE
    /\ ev' = [op |-> "onReset"]
    /\ UNCHANGED << isCameraActive, analysisResult, calls >>
    /\ reference' = NoReference
    /\ IntervalEffect(TRUE)
    /\ UNCHANGED << readmeVars, appVars >>

NextMon ==
    \/ P_onComplete
    \/ P_handleFileUpload
    \/ \E embedUrl \in Urls : P_handleYoutubeSubmit(embedUrl)
    \/ \E i \in 1..Len(calls) : P_youtubeDone(i)
    \/ P_onClear
    \/ P_startCheckSequence
    \/ P_calibrationComplete
    \/ P_toggleCamera
    \/ \E cam \in Cams : P_captureFrame(cam)
    \/ \E i \in 1..Len(calls), o \in ServiceOutcomes, isDrift \in BOOLEAN :
           P_captureDone(i, o, isDrift) /\ errors(logs') <= MaxMonErrors
    \/ P_finishTask
    \/ P_onReset

SpecMon == Init /\ [][NextMon]_vars

\* A monitoring session that runs until the report, with as many drifts
\* logged as MaxErrors allows.
NextScore ==
    \/ P_onComplete
    \/ P_handleFileUpload
    \/ P_startCheckSequence
    \/ P_calibrationComplete
    \/ P_captureFrame("frame")
    \/ \E i \in 1..Len(calls), o \in ServiceOutcomes, isDrift \in BOOLEAN :
           P_captureDone(i, o, isDrift)
    \/ P_finishTask
    \/ P_onReset

SpecScore == Init /\ [][NextScore]_vars

\* ======================================================================
\* The periodic triggers of both Apps
\* ======================================================================
\* Arming and disarming the README scheduler, and a monitoring session of
\* part_000 from the dashboard to the report and back.
NextPeriodic ==
    \/ R_periodicTick
    \/ R_manualTrigger
    \/ R_toggleArmed
    \/ R_tick
    \/ \E i \in 1..Len(calls), o \in BoxedOutcomes :
           R_complianceDone(i, o, TRUE) /\ Len(auditLogs') <= MaxSupLog
    \/ P_onComplete
    \/ P_handleFileUpload
    \/ P_startCheckSequence
    \/ P_calibrationComplete
    \/ \E cam \in Cams : P_captureFrame(cam)
    \/ \E i \in 1..Len(calls), o \in ServiceOutcomes, isDrift \in BOOLEAN :
           P_captureDone(i, o, isDrift) /\ errors(logs') <= MaxMonErrors
    \/ P_finishTask
    \/ P_onReset

SpecPeriodic == Init /\ [][NextPeriodic]_vars

\* ======================================================================
\* App.tsx: the video procedure controller (Neural SOP panel)
\* ======================================================================
appFrame == << isAnalyzing, sinceProcessed, isFrozen, isMacroMode, isArmed, calls, auditLogs,
               overlayMacro, referenceData, isSupervisorMode, currentVideoStepIndex,
               isVideoPlaying, showGoldenFrame, isImportingYt, recordingVars, monVars,
               scanVars >>

\* App.tsx:431  the comparator's key, a.timestamp || 0
sortKey(step) == IF step.timestamp = NoTimestamp THEN 0 ELSE step.timestamp

\* One step put into an ascending list, behind the steps of the same key.
RECURSIVE insertStep(_, _)
insertStep(sorted, step) ==
    IF sorted = << >> THEN << step >>
    ELSE IF sortKey(Head(sorted)) <= sortKey(step)
         THEN << Head(sorted) >> \o insertStep(Tail(sorted), step)
         ELSE << step >> \o sorted

\* App.tsx:431  data.steps.sort((a, b) => (a.timestamp || 0) - (b.timestamp || 0));
\* Array.prototype.sort is stable.
RECURSIVE sort(_)
sort(steps) ==
    IF steps = << >> THEN << >>
    ELSE insertStep(sort(SubSeq(steps, 1, Len(steps) - 1)), steps[Len(steps)])

\* App.tsx:360-371: the player effect, which runs after a render in which
\* activeYoutubeUrl changed.  With a video it schedules the creation of the
\* player one second later; without one it drops the player.
PlayerEffect(changed) ==
    /\ playerTimeouts' = IF changed /\ activeYoutubeUrl' /\ ytApi
                         THEN playerTimeouts + 1 ELSE playerTimeouts
    /\ playerRef' = IF changed /\ ~activeYoutubeUrl' THEN "null" ELSE playerRef

\* App.tsx:374-388: the Smart Pause effect.  It runs again after a render in
\* which activeYoutubeUrl, currentStepIndex, isStepWaiting or sopSteps
\* changed, after the player effect of the same render: first the cleanup
\* that its previous run returned, if it returned one, then its body, which
\* sets an interval when a video is loaded, the player exists and has its
\* methods, no step is waiting and the list is not empty.
SmartPauseEffect(rerun) ==
    LET cleaned == IF rerun /\ pollCleanup THEN clearInterval(pollIntervals)
                   ELSE pollIntervals
        polls   == /\ rerun
                   /\ activeYoutubeUrl' /\ playerRef' = "ready"
                   /\ ~isStepWaiting' /\ Len(sopSteps') > 0
    IN /\ pollIntervals' = IF polls THEN cleaned + 1 ELSE cleaned
       /\ pollCleanup' = IF rerun THEN polls ELSE pollCleanup

\* App.tsx:79-86: the script of the YouTube iframe API, requested on mount,
\* has loaded.
A_apiLoaded ==
    /\ ~ytApi
    /\ ytApi' = TRUE
    /\ ev' = Other
    /\ UNCHANGED << activeYoutubeUrl, sopSteps, isProcessingYt, currentStepIndex,
                    isStepWaiting, playerRef, playerTimeouts, pollIntervals, pollCleanup >>
    /\ UNCHANGED appFrame

\* App.tsx:424-427: handleYoutubeSubmit up to its await.  The form is
\* rendered while no video is loaded (596) and its button is disabled during
\* a request (608).
A_handleYoutubeSubmit ==
    /\ ~activeYoutubeUrl /\ ~isProcessingYt
    /\ isProcessingYt' = TRUE
    /\ ev' = Other
    /\ UNCHANGED << activeYoutubeUrl, sopSteps, currentStepIndex, isStepWaiting, ytApi,
                    playerRef, playerTimeouts, pollIntervals, pollCleanup >>
    /\ UNCHANGED appFrame

\* App.tsx:428-437: its continuation.  processYoutubeVideo rejects an invalid
\* URL (types.ts:268-270) and answers anything else.
A_youtubeProcessed(rejected, raw) ==
    /\ isProcessingYt
    /\ isProcessingYt' = FALSE
    /\ ~rejected => playerTimeouts < MaxTimeouts
    /\ IF rejected
       THEN UNCHANGED << activeYoutubeUrl, sopSteps, currentStepIndex, isStepWaiting >>
       ELSE /\ activeYoutubeUrl' = TRUE
            /\ sopSteps' = sort(processYoutubeVideo(raw))
            /\ currentStepIndex' = 0
            /\ isStepWaiting' = FALSE
    /\ PlayerEffect(activeYoutubeUrl' # activeYoutubeUrl)
    /\ SmartPauseEffect(~rejected)
    /\ ev' = [op |-> "youtubeProcessed", rejected |-> rejected]
    /\ UNCHANGED ytApi
    /\ UNCHANGED appFrame

\* App.tsx:362-367: the callback of the player effect's setTimeout.  The
\* iframe it names is rendered while a video is loaded (617-629); without
\* that element the constructor gives no player.
A_playerTimeout ==
    /\ playerTimeouts > 0
    /\ playerTimeouts' = playerTimeouts - 1
    /\ playerRef' = IF playerRef = "null" /\ activeYoutubeUrl THEN "created" ELSE playerRef
    /\ ev' = Other
    /\ UNCHANGED << activeYoutubeUrl, sopSteps, isProcessingYt, currentStepIndex,
                    isStepWaiting, ytApi, pollIntervals, pollCleanup >>
    /\ UNCHANGED appFrame

\* The player reports ready: from then on it has its methods (376).
A_playerReady ==
    /\ playerRef = "created"
    /\ playerRef' = "ready"
    /\ ev' = Other
    /\ UNCHANGED << activeYoutubeUrl, sopSteps, isProcessingYt, currentStepIndex,
                    isStepWaiting, ytApi, playerTimeouts, pollIntervals, pollCleanup >>
    /\ UNCHANGED appFrame

\* The positions a player may report.
PlayerTimes == {0, 3, FallbackSpacing}

\* App.tsx:377-386: one firing of the Smart Pause interval.  Its closure
\* holds the sopSteps and currentStepIndex of the render that set it, which
\* are the current ones because the effect runs again when they change.
A_smartPauseTick(time) ==
    LET reached == /\ currentStepIndex < Len(sopSteps)
                   /\ time >= sopSteps[currentStepIndex + 1].timestamp IN
    /\ pollIntervals > 0
    /\ isStepWaiting' = (reached \/ isStepWaiting)
    /\ UNCHANGED << activeYoutubeUrl, sopSteps, currentStepIndex, isProcessingYt, ytApi >>
    /\ PlayerEffect(FALSE)
    /\ SmartPauseEffect(isStepWaiting' # isStepWaiting)
    /\ ev' = [op |-> "smartPauseTick", reached |-> reached]
    /\ UNCHANGED appFrame

\* App.tsx:390-402; the button is in the overlay rendered over the player
\* while isStepWaiting (636-650)
A_handleStepConfirm ==
    LET last == ~(currentStepIndex < Len(sopSteps) - 1) IN
    /\ activeYoutubeUrl /\ isStepWaiting
    /\ isStepWaiting' = FALSE
    /\ currentStepIndex' = IF last THEN 0 ELSE currentStepIndex + 1
    /\ activeYoutubeUrl' = IF last THEN FALSE ELSE activeYoutubeUrl
    /\ sopSteps' = IF last THEN << >> ELSE sopSteps
    /\ PlayerEffect(last)
    /\ SmartPauseEffect(TRUE)
    /\ ev' = [op |-> "handleStepConfirm", last |-> last]
    /\ UNCHANGED << isProcessingYt, ytApi >>
    /\ UNCHANGED appFrame

\* App.tsx:630-635: the close button over the player
A_closeProcedure ==
    /\ activeYoutubeUrl
    /\ activeYoutubeUrl' = FALSE
    /\ sopSteps' = << >>
    /\ PlayerEffect(TRUE)
    /\ SmartPauseEffect(TRUE)
    /\ ev' = [op |-> "closeProcedure"]
    /\ UNCHANGED << isProcessingYt, currentStepIndex, isStepWaiting, ytApi >>
    /\ UNCHANGED appFrame

NextApp ==
    \/ A_apiLoaded
    \/ A_handleYoutubeSubmit
    \/ \E raw \in RawLists : A_youtubeProcessed(FALSE, raw)
    \/ A_youtubeProcessed(TRUE, << >>)
    \/ A_playerTimeout
    \/ A_playerReady
    \/ \E time \in PlayerTimes : A_smartPauseTick(time)
    \/ A_handleStepConfirm
    \/ A_closeProcedure

SpecApp == Init /\ [][NextApp]_vars

\* ----------------------------------------------- App.tsx: runAnalysis
auditFrame == << sinceProcessed, isFrozen, isMacroMode, isArmed, overlayMacro,
                 timelineVars, monVars, appVars, scanVars >>

\* types.ts:132-176: the URL generateIncidentReport returns: that of the PDF
\* blob, or "#" from its catch clause when the PDF cannot be produced.
generateIncidentReport(pdfFails) == IF pdfFails THEN "#" ELSE "blob"

\* App.tsx:455-458: runAnalysis up to its await; the button is disabled
\* while isAnalyzing (897-898).  Without a frame it ends at once (503).
A_runAnalysis(cam) ==
    /\ ~isAnalyzing
    /\ cam = "frame" => Room
    /\ isAnalyzing' = (cam = "frame")
    /\ calls' = IF cam = "frame" THEN Append(calls, [kind |-> "analysis"]) ELSE calls
    /\ ev' = [op |-> "runAnalysis", cam |-> cam]
    /\ UNCHANGED auditLogs
    /\ UNCHANGED auditFrame

\* App.tsx:466-503: its continuation.  A DRIFT verdict is logged; for a
\* CRITICAL one generateIncidentReport is called first and its URL is put
\* into the entry.  reports counts the PDF reports produced.
A_analysisDone(i, o, pdfFails) ==
    LET result   == analyzeCompliance(o)
        critical == result.drift_severity = "CRITICAL"
        reportUrl == IF critical THEN generateIncidentReport(pdfFails) ELSE "none"
        newLog   == [severity |-> result.drift_severity, reportUrl |-> reportUrl]
    IN  /\ calls[i].kind = "analysis"
        /\ critical \/ ~pdfFails
        /\ calls' = RemoveAt(calls, i)
        /\ auditLogs' = IF result.status = "DRIFT" THEN << newLog >> \o auditLogs
                        ELSE auditLogs
        /\ isAnalyzing' = FALSE
        /\ ev' = [op |-> "analysisDone", status |-> result.status,
                  severity |-> result.drift_severity,
                  reports |-> IF result.status = "DRIFT" /\ critical /\ ~pdfFails
                              THEN 1 ELSE 0]
        /\ UNCHANGED auditFrame

NextAudit ==
    \/ \E cam \in Cams : A_runAnalysis(cam)
    \/ \E i \in 1..Len(calls), o \in BoxedOutcomes, pdfFails \in BOOLEAN :
           A_analysisDone(i, o, pdfFails) /\ Len(auditLogs') <= MaxAuditLog

SpecAudit == Init /\ [][NextAudit]_vars

\* ======================================================================
\* The interval timers of App.tsx and part_000
\* ======================================================================
\* Loads and closes of the video procedure of App.tsx, and monitoring
\* sessions of part_000 with the events that run its interval effect again.
\* Smart Pause firings and step confirmations are left out: no state that
\* NextApp reaches enables them.
NextTimers ==
    \/ A_apiLoaded
    \/ A_handleYoutubeSubmit
    \/ \E raw \in RawLists : A_youtubeProcessed(FALSE, raw)
    \/ A_youtubeProcessed(TRUE, << >>)
    \/ A_playerTimeout
    \/ A_playerReady
    \/ A_closeProcedure
    \/ P_onComplete
    \/ P_handleFileUpload
    \/ P_onClear
    \/ P_startCheckSequence
    \/ P_calibrationComplete
    \/ P_toggleCamera
    \/ \E cam \in Cams : P_captureFrame(cam)
    \/ \E i \in 1..Len(calls), o \in ServiceOutcomes, isDrift \in BOOLEAN :
           P_captureDone(i, o, isDrift) /\ errors(logs') <= MaxMonErrors
    \/ P_finishTask
    \/ P_onReset

SpecTimers == Init /\ [][NextTimers]_vars

\* ======================================================================
\* Properties of the analysis scheduler (README.md), under SpecSched
\* ======================================================================

\* C1: at most one reasoning-service analysis (runComplianceCheck or
\* handleToolVerification) is in flight at any time.
C1_SingleFlight == Len(calls) <= 1

C3_Admitted ==
    sinceProcessed >= MinInterval /\ ~isAnalyzing /\ ~isFrozen /\ ev'.cam # "none"

C4_FlagMeansCall == isAnalyzing => Len(calls) > 0

\* C5: a compliance cycle whose reasoning request failed leaves the audit
\* log as it was.
C5_FailureLeavesLog ==
    [][ev'.op = "complianceDone" /\ ev'.failed => auditLogs' = auditLogs]_vars

\* ======================================================================
\* Properties of the monitoring loop of part_000, under SpecMon
\* ======================================================================

\* C2: the 2.5 s timer starts a performEntropyCheck call only when no earlier
\* one is outstanding.
C2_TickWaitsForFlight ==
    ev.op = "captureFrame" /\ ev.started => ev.outstanding = 0

\* ======================================================================
\* Properties of the supervised procedure of README.md, under SpecSup (C6 and
\* C10 under SpecRec, where the master studio replaces the step list)
\* ======================================================================

\* C6: whenever the step list is non-empty the current step index lies inside
\* it, whatever confirmations, voice commands, selections and replacements of
\* the list came before; and no analysis trigger reads a step outside the list.
C6_IndexInRange ==
    /\ Len(sopSteps) > 0 => currentVideoStepIndex < Len(sopSteps)
    /\ ev.op = "runComplianceCheck" => ~ev.threw

\* The controller awaits confirmation of an existing current step: playback
\* is paused and the alignment view is shown.
AwaitingConfirmation ==
    /\ isSupervisorMode /\ activeYoutubeUrl /\ showGoldenFrame /\ ~isVideoPlaying
    /\ currentVideoStepIndex < Len(sopSteps)

\* The step taken is a confirmation of the current step: the voice command
\* "next step", or a MATCH verdict of an analysis started on this step while
\* it was awaiting confirmation.
Confirmation ==
    /\ AwaitingConfirmation
    /\ \/ ev'.op = "voiceNextStep"
       \/ ev'.op = "complianceDone" /\ ev'.confirmed /\ ev'.onStep

\* C7: a confirmation of a step that is not the last marks that step
\* completed and moves the index on by one; a confirmation of the last step
\* ends supervision with playback stopped and every step marked completed.
C7_ConfirmationCompletesStep ==
    [][Confirmation
         => IF currentVideoStepIndex < Len(sopSteps) - 1
            THEN /\ sopSteps'[currentVideoStepIndex + 1].completed
                 /\ currentVideoStepIndex' = currentVideoStepIndex + 1
            ELSE /\ ~isSupervisorMode' /\ ~isVideoPlaying'
                 /\ \A k \in 1..Len(sopSteps') : sopSteps'[k].completed]_vars

\* C8: each confirmation but the last moves the index on by exactly one and
\* puts the controller back to playing the next step; the last one ends
\* supervision; the index stays within the list throughout.
C8_ConfirmationsWalkTheList ==
    [][Confirmation
         => /\ currentVideoStepIndex' <= Len(sopSteps) - 1
            /\ IF currentVideoStepIndex < Len(sopSteps) - 1
               THEN /\ currentVideoStepIndex' = currentVideoStepIndex + 1
                    /\ isSupervisorMode' /\ isVideoPlaying' /\ ~showGoldenFrame'
               ELSE ~isSupervisorMode' /\ ~isVideoPlaying']_vars

\* C9: after a progress event that reports a position within LeadWindow of
\* the current step's target, in supervisor mode with a video, playback is
\* paused and the controller awaits confirmation.
C9_CheckpointPauses ==
    ev.op = "handleVideoProgress" /\ isSupervisorMode /\ activeYoutubeUrl /\ ev.reached
        => ~isVideoPlaying /\ showGoldenFrame

C11_ScoreFormula ==
    LET k == Cardinality({i \in 1..Len(logs) : logs[i] = "ERROR"}) IN
    /\ complianceScore(logs) \in 0..100
    /\ logs = << >> => complianceScore(logs) = 100
    /\ complianceScore(<< "ERROR" >>) = 85
    /\ k <= 6 => complianceScore(logs) = 100 - 15 * k
    /\ k >= 7 => complianceScore(logs) = 0
    /\ complianceScore(Append(logs, "ERROR")) <= complianceScore(logs)

\* C11 witness: the report is shown for a session with seven logged drifts.
C11_SevenDrifts ==
    /\ appState = "REPORT"
    /\ errors(logs) = 7
    /\ complianceScore(logs) = 0

\* ======================================================================
\* Properties of the session log of part_000, under SpecMon
\* ======================================================================

\* C12: the compliance score drops only when a DRIFT verdict of severity
\* CRITICAL is logged; every other verdict and every other log event leaves
\* it as it was.
C12_OnlyCriticalPenalizes ==
    [][complianceScore(logs') < complianceScore(logs)
         => /\ ev'.op = "captureDone"
            /\ ev'.status = "DRIFT" /\ ev'.severity = "CRITICAL"]_vars

\* The entries of the log as the terminal panel lists them, top first
\* (components/TerminalLog.tsx:63 maps the array in its own order).
displayed(l) == l

\* C13: every step other than the session reset keeps the existing entries
\* of the log, unmodified and in order, so the length never decreases; a
\* DRIFT verdict adds exactly one entry, and that entry is the first one in
\* display order.
C13_AppendOnly ==
    [][/\ ~(appState = "REPORT" /\ appState' = "DASHBOARD")
             => \/ logs' = logs
                \/ \E e \in {"INFO", "WARNING", "ERROR", "SUCCESS", "AI"} :
                       logs' = Append(logs, e) \/ logs' = << e >> \o logs
       /\ ev'.op = "captureDone" /\ ev'.status = "DRIFT"
             => /\ Len(logs') = Len(logs) + 1
                /\ displayed(logs') = << "ERROR" >> \o displayed(logs)]_vars

\* ======================================================================
\* Properties of drawOverlay (README.md), under SpecOverlay
\* ======================================================================

\* C14: for a box [x, y, w, h] of four numbers on a canvas of W x H pixels,
\* drawn outside macro mode, the rectangle is at (x/1000*W, y/1000*H) with
\* size (w/1000*W, h/1000*H) when the feed is not mirrored; when it is
\* mirrored the horizontal position is W - (x/1000*W + w/1000*W) and the
\* rest is the same.  Lengths are in thousandths of a pixel.
C14_BoxGeometry ==
    ev.op = "drawOverlay" /\ ~ev.macro /\ ev.video /\ ev.coords.present
      /\ Len(ev.coords.v) = 4 /\ (\A k \in 1..4 : ev.coords.v[k] # NotANumber)
    => LET x == ev.coords.v[1]
           y == ev.coords.v[2]
           w == ev.coords.v[3]
           h == ev.coords.v[4]
           left == IF ev.mirrored THEN 1000 * ev.W - (x * ev.W + w * ev.W)
                   ELSE x * ev.W
       IN  /\ ~ev.out.threw
           /\ ev.out.rect = << left, y * ev.H, w * ev.W, h * ev.H >>

\* C14 witness: a box off the left edge with a width was drawn mirrored.
C14_MirroredBoxDrawn ==
    /\ ev.op = "drawOverlay" /\ ev.mirrored
    /\ ev.coords = Coords(<< 300, 0, 300, 1000 >>)
    /\ ev.W = 640
    /\ ev.out.rect = << 256000, 0, 192000, 480000 >>

\* ======================================================================
\* Properties of the overlay within an analysis cycle, under SpecSched
\* ======================================================================

\* C15: a verdict is processed to its end without an error whatever its box
\* is, and a DRIFT verdict adds its audit entry.
C15_MalformedBoxTolerated ==
    [][ev'.op = "complianceDone"
         => /\ ~ev'.threw
            /\ ev'.status = "DRIFT" => Len(auditLogs') = Len(auditLogs) + 1]_vars

\* ======================================================================
\* Properties of the triggers of README.md, under SpecSched
\* ======================================================================

\* C16: no trigger of runComplianceCheck (periodic tick, voice "system check",
\* gesture) starts an analysis call while the feed is frozen or while macro
\* mode is on.
C16_NoCallWhileSuspended ==
    ev.op = "runComplianceCheck" /\ ev.started => ~ev.frozen /\ ~ev.macro

\* ======================================================================
\* Properties of the periodic triggers, under SpecPeriodic
\* ======================================================================

\* C17: the monitoring timer fires only while monitoring is enabled (isArmed
\* in README.md, appState MONITORING in part_000), and the step that disables
\* monitoring leaves the calls in flight as they are.
C17_DisabledMeansNoPeriodicCall ==
    [][/\ ev'.op = "captureFrame" => appState = "MONITORING"
       /\ ev'.op = "runComplianceCheck" /\ ev'.silentMode => isArmed
       /\ ((appState = "MONITORING" /\ appState' # "MONITORING") \/ (isArmed /\ ~isArmed'))
              => calls' = calls]_vars

\* C17 witness: a call that was in flight when the task was finished has
\* completed in the report, and none is left in flight.
C17_FlightOutlivesMonitoring ==
    /\ ev.op = "captureDone" /\ appState = "REPORT"
    /\ calls = << >>

\* ======================================================================
\* Properties of late results, under SpecMon
\* ======================================================================

\* C18: the result of an analysis that was started before a session reset and
\* arrives after it appends nothing to the log of the new session and leaves
\* its score as it is.  Analyses start only in MONITORING, where startTime is
\* set, and only the reset clears startTime: a result that arrives while
\* startTime is not set belongs to a call of the session before the reset.
C18_StaleResultIgnored ==
    [][ev'.op = "captureDone" /\ ~startTime
         => logs' = logs /\ complianceScore(logs') = complianceScore(logs)]_vars

\* ======================================================================
\* Properties of step transitions that race, under SpecSup
\* ======================================================================

\* C19: when an analysis that was started while its step awaited confirmation
\* returns MATCH after the index was moved, the advance is the one the index
\* and the alignment flag of that moment call for: from an awaited step that
\* is not the last to the step after it, from the last step to the end of
\* supervision, and none at all when no confirmation is awaited any more.
C19_AdvanceFromCurrentState ==
    [][ev'.op = "complianceDone" /\ ev'.confirmed /\ ~ev'.onStep
         => IF isSupervisorMode /\ showGoldenFrame
            THEN IF currentVideoStepIndex < Len(sopSteps) - 1
                 THEN /\ currentVideoStepIndex' = currentVideoStepIndex + 1
                      /\ isSupervisorMode'
                 ELSE /\ currentVideoStepIndex' = currentVideoStepIndex
                      /\ ~isSupervisorMode'
            ELSE /\ currentVideoStepIndex' = currentVideoStepIndex
                 /\ isSupervisorMode' = isSupervisorMode
                 /\ showGoldenFrame' = showGoldenFrame]_vars

\* C20: a step whose completed flag turns true in a step of the program is
\* the active step of the state the step was taken in.
C20_CompletedOnlyOnActiveStep ==
    [][\A i \in (DOMAIN sopSteps) \cap (DOMAIN sopSteps') :
           ~sopSteps[i].completed /\ sopSteps'[i].completed => isActive(i - 1)]_vars

\* ======================================================================
\* Properties of the step commands of README.md, under SpecSup
\* ======================================================================

\* C21: the "previous step" command moves the index to max(0, index - 1)
\* while a video procedure is supervised and leaves the index where it is
\* otherwise; in both cases the step list and every completed flag stay as
\* they are, and outside supervision nothing else changes either.
C21_PreviousStep ==
    [][ev'.op = "voicePreviousStep"
         => /\ sopSteps' = sopSteps
            /\ IF activeYoutubeUrl /\ isSupervisorMode
               THEN currentVideoStepIndex' =
                        (IF currentVideoStepIndex > 0 THEN currentVideoStepIndex - 1 ELSE 0)
               ELSE /\ currentVideoStepIndex' = currentVideoStepIndex
                    /\ isVideoPlaying' = isVideoPlaying
                    /\ showGoldenFrame' = showGoldenFrame
                    /\ isSupervisorMode' = isSupervisorMode]_vars

\* C21 witness: the command was given on the second step of a supervised
\* video procedure and the first step is the current one.
C21_SteppedBack ==
    /\ ev.op = "voicePreviousStep" /\ ev.from = 1
    /\ activeYoutubeUrl /\ isSupervisorMode
    /\ Len(sopSteps) = 2 /\ currentVideoStepIndex = 0

\* C22: after a click on step i of a video-backed procedure the current step
\* is step i, no confirmation is awaited, and the player was asked to seek
\* to the timestamp of step i.
C22_SelectStepJumps ==
    ev.op = "selectStep" /\ activeYoutubeUrl
        => /\ currentVideoStepIndex = ev.index
           /\ ~showGoldenFrame
           /\ ev.seeks = {sopSteps[ev.index + 1].timestamp}

\* ======================================================================
\* Properties of steps without a timestamp, under SpecRec
\* ======================================================================

\* The current step exists and carries no timestamp.
NoTarget ==
    /\ currentVideoStepIndex < Len(sopSteps)
    /\ sopSteps[currentVideoStepIndex + 1].timestamp = NoTimestamp

\* C23: while the current step has no timestamp, a progress event neither
\* pauses playback nor shows the alignment view.
C23_NoTargetNoPause ==
    [][ev'.op = "handleVideoProgress" /\ NoTarget
         => /\ showGoldenFrame' = showGoldenFrame
            /\ isVideoPlaying => isVideoPlaying']_vars

\* C23 witness: a progress event was handled while a supervised video was
\* playing a step without timestamp, and the video still plays.
C23_PlaysPastUntimedStep ==
    /\ ev.op = "handleVideoProgress" /\ NoTarget
    /\ isSupervisorMode /\ activeYoutubeUrl
    /\ isVideoPlaying /\ ~showGoldenFrame

\* ======================================================================
\* Properties of the end of a session of part_000, under SpecMon
\* ======================================================================

C26_StepsAscending ==
    \A i, j \in 1..Len(sopSteps) :
        (i < j /\ sopSteps[i].timestamp # NoTimestamp /\ sopSteps[j].timestamp # NoTimestamp)
            => sopSteps[i].timestamp <= sopSteps[j].timestamp

\* ======================================================================
\* Properties of a missing frame in README.md, under SpecSched
\* ======================================================================

\* C27: an analysis or a tool verification that gets no frame from the
\* camera starts no call and leaves isAnalyzing as it found it.
C27_NoFrameNoEffect ==
    [][((ev'.op = "handleToolVerification" /\ ~ev'.frame)
          \/ (ev'.op = "runComplianceCheck" /\ ev'.cam # "frame"))
         => (calls' = calls /\ isAnalyzing' = isAnalyzing)]_vars

\* ======================================================================
\* Properties of a session of part_000 without reference, under SpecMon
\* ======================================================================

\* C28: with no reference loaded, START CHECK leaves appState as it is and
\* a firing of the capture timer starts no call.
C28_NoReferenceNoCheck ==
    [][/\ (ev'.op = "startCheckSequence" /\ ~referenceData) => appState' = appState
       /\ (ev'.op = "captureFrame" /\ ~referenceData) => calls' = calls]_vars

\* C28 witness: START CHECK was pressed on a dashboard without reference,
\* and the dashboard is still shown.
C28_StartRefused ==
    ev.op = "startCheckSequence" /\ ~referenceData /\ appState = "DASHBOARD"

\* C29: startTime is set in every MONITORING and REPORT state; it becomes
\* set only on the step into MONITORING and cleared only by the reset, which
\* always clears it.
C29_StartTimeOncePerSession ==
    [][/\ appState' \in {"MONITORING", "REPORT"} => startTime'
       /\ (~startTime /\ startTime') => (appState # "MONITORING" /\ appState' = "MONITORING")
       /\ (startTime /\ ~startTime') => ev'.op = "onReset"
       /\ ev'.op = "onReset" => ~startTime']_vars

\* C29 witness: a session that was stamped on entering MONITORING has
\* reached the report with its start time and its log.
C29_SessionTimed ==
    appState = "REPORT" /\ startTime /\ Len(logs) > 0

\* C30: of the capture interval of part_000 and of the position-polling
\* interval of App.tsx at most one timer each is alive, and none is alive
\* outside the state that polls: the capture interval only while appState is
\* MONITORING, the polling interval only while a procedure with steps is
\* loaded and no step awaits its confirmation.
C30_TimersOnlyWhilePlaying ==
    /\ intervals <= 1
    /\ pollIntervals <= 1
    /\ (appState # "MONITORING") => (intervals = 0)
    /\ (~activeYoutubeUrl \/ isStepWaiting \/ Len(sopSteps) = 0) => (pollIntervals = 0)
\* A second monitoring session (the drift shown is that of a session whose
\* log a reset has cleared), with the camera off, holds one capture timer,
\* while the video procedure of App.tsx has been loaded and closed.
C30_OneTimerAfterReset ==
    /\ appState = "MONITORING" /\ intervals = 1 /\ intervalRef
    /\ analysisResult = "DRIFT" /\ errors(logs) = 0
    /\ ~isCameraActive
    /\ ~activeYoutubeUrl /\ ev.op = "closeProcedure" /\ pollIntervals = 0

\* C31: with a reference image or document loaded the system is armed only
\* when preFlightStatus is PASS, that PASS is the answer to a scan made
\* against the reference that is loaded, and loading a reference disarms the
\* system and sets preFlightStatus to IDLE.
C31_ArmedOnlyAfterScanOfReference ==
    [][/\ (isArmed' /\ ~isArmed /\ referenceData) => (preFlightStatus = "PASS")
       /\ (referenceData' /\ ~referenceData) => (~isArmed' /\ preFlightStatus' = "IDLE")
       /\ (ev'.op = "preFlightDone" /\ preFlightStatus' = "PASS" /\ referenceData')
              => ev'.current]_vars

\* C32: in App.tsx, once a procedure with at least one step is loaded, its
\* player exists and has its methods, and no step awaits confirmation, the
\* position-polling interval is running.
C32_PollingRunsOncePlayerExists ==
    (activeYoutubeUrl /\ Len(sopSteps) > 0 /\ playerRef = "ready" /\ ~isStepWaiting)
        => (pollIntervals = 1)

\* C33: right after a successful import of a video procedure the controller
\* is at step 0 and awaits no confirmation: in README.md
\* currentVideoStepIndex is 0 and showGoldenFrame is off, in App.tsx
\* currentStepIndex is 0 and isStepWaiting is off.
C33_LoadStartsAtStepZero ==
    [][/\ (isImportingYt /\ ~isImportingYt' /\ activeYoutubeUrl' /\ sopSteps' # sopSteps)
              => (currentVideoStepIndex' = 0 /\ ~showGoldenFrame')
       /\ (ev'.op = "youtubeProcessed" /\ ~ev'.rejected)
              => (currentStepIndex' = 0 /\ ~isStepWaiting')]_vars

\* C34: in App.tsx the current step of a loaded procedure can be confirmed
\* by hand without an automatic pause having announced it, which is the
\* only way past a step that has no target timestamp to pause at.
C34_ConfirmationEnabled ==
    (activeYoutubeUrl /\ currentStepIndex < Len(sopSteps) /\ playerRef = "ready")
        => ENABLED A_handleStepConfirm

C36_LabelAtBoxCorner ==
    ev.op = "drawTranslation"
    => ev.out = << (IF ev.mirrored THEN 1000 - ev.boundingBox[4] ELSE ev.boundingBox[2]) * ev.W,
                   ev.boundingBox[1] * ev.H >>

\* C37: in part_000 the result of a check that was started before a check
\* whose result has already arrived does not replace the analysisResult on
\* display.
C37_EarlierResultNeverOverwrites ==
    [][(ev'.op = "captureDone" /\ ev'.overtaken) => analysisResult' = analysisResult]_vars

\* C38: a generation of a protocol from recorded frames starts only in the
\* step in which a recording stops, and while a recording goes on the frames
\* captured so far are kept.
C38_GeneratedOncePerRecording ==
    [][/\ (Len(sopJobs') > Len(sopJobs)) => (isRecording /\ ~isRecording')
       /\ (isRecording /\ isRecording' /\ recordedFrames) => recordedFrames']_vars

\* C39: in App.tsx an audit log entry carries a report URL exactly when its
\* severity is CRITICAL, and a CRITICAL drift verdict adds exactly one entry
\* and produces exactly one incident report, whose URL the entry carries.
C39_ReportIffCritical ==
    [][/\ \A k \in 1..Len(auditLogs') :
              (auditLogs'[k].reportUrl # "none") <=> (auditLogs'[k].severity = "CRITICAL")
       /\ (ev'.op = "analysisDone" /\ ev'.status = "DRIFT" /\ ev'.severity = "CRITICAL")
              => /\ Len(auditLogs') = Len(auditLogs) + 1
                 /\ ev'.reports = 1
                 /\ auditLogs'[1].reportUrl = "blob"]_vars
====
